---- MODULE Spec2Model ----
(***************************************************************************)
(* TacoCat: a Flask application over two peewee tables (User, Taco).       *)
(* Model of src/models.py (the stores) and src/tacocat.py (the request     *)
(* handlers and the flask_login session).                                  *)
(*                                                                         *)
(* Strings that the code only compares (emails, routes, flash messages)    *)
(* are TLA+ strings.  Strings that the code transforms (passwords, which   *)
(* are hashed; extras, which are stripped) are sequences of characters.    *)
(* Password characters are numbers so that the digest can be computed.     *)
(***************************************************************************)
EXTENDS Integers, Sequences, FiniteSets, TLC

VARIABLES
    users,      \* table User: sequence of rows [id, email, password], in rowid order
    tacos,      \* table Taco: sequence of rows [id, user, protein, shell, cheese, extras]
    session,    \* the client's flask_login session: 0 = Anonymous, else the user id
    req,        \* the request being answered (with the session it carried)
    resp,       \* the response to it
    threads     \* concurrent callers of User.create_user (SpecConc only)

vars == <<users, tacos, session, req, resp, threads>>

-----------------------------------------------------------------------------
(* Bounds and input sets *)

MaxTacos == 2          \* cap on the Taco table in Spec
MaxFeedTacos == 102    \* largest Taco table drawn in SpecFeed
FeedLimit == 100       \* .limit(100) in index()

Emails == {"test_0@example.com", "test_1@example.com"}
Passwords == {<<1>>, <<2, 1>>}
Salts == {1, 2}
Proteins == {"chicken"}
Cheeses == {FALSE}
FeedStrides == {2, 3}
Shells == {"flour"}
ExtrasInputs == {<<" ", "g">>, <<" ">>}
Methods == {"GET", "POST"}
Threads == {1, 2}

Min(a, b) == IF a < b THEN a ELSE b

-----------------------------------------------------------------------------
(* flask_bcrypt *)

\* generate_password_hash(password): bcrypt with a fresh random salt.  The
\* output carries a marker (0, for "$2b$"), the salt, and a digest that is
\* a salt-keyed injective function of the password.
generate_password_hash(password, salt) ==
    <<0, salt>> \o [i \in 1..Len(password) |-> password[i] + salt]

\* check_password_hash(pw_hash, password): re-hash the candidate with the salt
\* embedded in pw_hash and compare; a malformed hash verifies nothing.
\* (fault variant: every candidate verifies)
check_password_hash_any(pw_hash, password) == TRUE
check_password_hash(pw_hash, password) ==
    /\ Len(pw_hash) >= 2
    /\ pw_hash[1] = 0
    /\ pw_hash = generate_password_hash(password, pw_hash[2])

-----------------------------------------------------------------------------
(* models.py: User *)

find_by_email(us, email) == {i \in 1..Len(us) : us[i].email = email}

\* email = CharField(unique=True): the unique index refuses a second row
\* (fault variant: no unique index)
UniqueViolationOff(us, email) == FALSE
UniqueViolation(us, email) == find_by_email(us, email) /= {}

\* the value create_user stores in the password column
\* (fault variant: the plaintext)
PasswordToStorePlain(password, salt) == password
PasswordToStore(password, salt) == generate_password_hash(password, salt)

\* cls.create(email=..., password=...): one INSERT, checked by the unique index
UserInsert(us, email, pw_hash) ==
    IF UniqueViolation(us, email)
    THEN [users |-> us, error |-> "IntegrityError"]
    ELSE [users |-> Append(us, [id |-> Len(us) + 1, email |-> email,
                                password |-> pw_hash]),
          error |-> ""]

\* User.create_user: IntegrityError inside the transaction becomes ValueError
\* (fault variant: the except clause raises nothing)
create_user_swallow(us, email, password, salt) ==
    LET r == UserInsert(us, email, PasswordToStore(password, salt))
    IN  [users |-> r.users, raised |-> ""]
create_user(us, email, password, salt) ==
    LET r == UserInsert(us, email, PasswordToStore(password, salt))
    IN  [users |-> r.users,
         raised |-> IF r.error = "IntegrityError" THEN "ValueError" ELSE ""]

-----------------------------------------------------------------------------
(* models.py: Taco *)

\* Taco.create(user=..., protein=..., shell=..., cheese=..., extras=...)
TacoInsert(ts, user, protein, shell, cheese, extras) ==
    Append(ts, [id |-> Len(ts) + 1, user |-> user, protein |-> protein,
                shell |-> shell, cheese |-> cheese, extras |-> extras])

\* str.strip() on the extras field
RECURSIVE LStrip(_)
LStrip(s) == IF s /= <<>> /\ Head(s) = " " THEN LStrip(Tail(s)) ELSE s
RECURSIVE RStrip(_)
RStrip(s) ==
    IF s /= <<>> /\ s[Len(s)] = " " THEN RStrip(SubSeq(s, 1, Len(s) - 1)) ELSE s
Strip(s) == RStrip(LStrip(s))

-----------------------------------------------------------------------------
(* tacocat.py: session (flask_login) *)

\* load_user(userid): the row with that id, or None (0) when there is none
load_user(us, userid) ==
    IF \E i \in 1..Len(us) : us[i].id = userid THEN userid ELSE 0

\* current_user.is_authenticated, as @login_required reads it
\* (fault variant: the decorator is missing)
login_required_open(us, sess) == TRUE
login_required(us, sess) == sess /= 0 /\ load_user(us, sess) /= 0

\* login_user(user): the session now names the user
login_user(user_id) == user_id

\* logout_user(): the session names nobody
\* (fault variant: the session is kept)
logout_user_keep(sess) == sess
logout_user(sess) == 0

\* g.user._get_current_object(): the row of the logged-in user
\* (fault variant: User.select().get(), the first row)
current_object_first(us, sess) == 1
current_object(us, sess) == load_user(us, sess)

-----------------------------------------------------------------------------
(* requests and responses *)

NoForm == [email |-> "", password |-> <<>>, password2 |-> <<>>,
           cheese |-> FALSE, extras |-> <<>>]

Request(method, route, form) ==
    [method |-> method, route |-> route, user_id |-> session, form |-> form]

Response(status, location, template, flashed, exc) ==
    [status |-> status, location |-> location, template |-> template,
     flashed |-> flashed, exc |-> exc, no_tacos |-> FALSE, feed |-> <<>>]

redirect(location, flashed) == Response(302, location, "", flashed, "")
render_template(template, flashed) == Response(200, "", template, flashed, "")
\* an exception no handler catches: Flask answers 500
unhandled(exc, flashed) == Response(500, "", "", flashed, exc)

\* what flask_login answers for an Anonymous caller of a @login_required view:
\* login_manager.login_view = 'login'
unauthorized == redirect("/login", <<"Please log in to access this page.">>)

\* forms.py: validate_on_submit() is true for a POST whose fields validate
RegisterFormValid(method, email, password, password2) ==
    method = "POST" /\ email /= "" /\ password /= <<>> /\ password2 = password
LoginFormValid(method, email, password) ==
    method = "POST" /\ email /= "" /\ password /= <<>>
CreateTacoFormValid(method, extras) ==
    method = "POST" /\ extras /= <<>>

\* templates/index.html: the feed, or the placeholder when there is no taco
index_html(feed) ==
    [render_template("index.html", <<>>) EXCEPT
        !.no_tacos = (feed = <<>>), !.feed = feed]

-----------------------------------------------------------------------------
(* tacocat.py: the views *)

\* models.Taco.select().limit(100): rows in rowid (insertion) order
\* (fault variants: a limit one short; the first row skipped)
SelectLimitShort(ts) == SubSeq(ts, 1, Min(Len(ts), FeedLimit - 1))
SelectLimitRest(ts) == IF ts = <<>> THEN ts ELSE Tail(ts)
SelectLimit(ts) == SubSeq(ts, 1, Min(Len(ts), FeedLimit))

index ==
    /\ req' = Request("GET", "/", NoForm)
    /\ resp' = index_html(SelectLimit(tacos))
    /\ UNCHANGED <<users, tacos, session, threads>>

register(method, email, password, password2, salt) ==
    /\ req' = Request(method, "/register",
                      [NoForm EXCEPT !.email = email, !.password = password,
                                     !.password2 = password2])
    /\ IF RegisterFormValid(method, email, password, password2)
       THEN LET r == create_user(users, email, password, salt)
                flashed == <<"You registered">>
            IN  IF r.raised /= ""
                THEN /\ resp' = unhandled(r.raised, flashed)
                     /\ users' = users
                ELSE /\ resp' = redirect("/", flashed)
                     /\ users' = r.users
       ELSE /\ resp' = render_template("register.html", <<>>)
            /\ users' = users
    /\ UNCHANGED <<tacos, session, threads>>

login(method, email, password) ==
    /\ req' = Request(method, "/login",
                      [NoForm EXCEPT !.email = email, !.password = password])
    /\ IF LoginFormValid(method, email, password)
       THEN IF find_by_email(users, email) = {}
            THEN /\ resp' = render_template("login.html",
                               <<"Your email or password doesn't match!">>)
                 /\ session' = session
            ELSE LET user == users[CHOOSE i \in find_by_email(users, email) : TRUE]
                 IN  IF check_password_hash(user.password, password)
                     THEN /\ session' = login_user(user.id)
                          /\ resp' = redirect("/", <<"You've been logged in">>)
                     ELSE /\ resp' = render_template("login.html",
                                        <<"Your email or password doesn't match!">>)
                          /\ session' = session
       ELSE /\ resp' = render_template("login.html", <<>>)
            /\ session' = session
    /\ UNCHANGED <<users, tacos, threads>>

logout ==
    /\ req' = Request("GET", "/logout", NoForm)
    /\ IF login_required(users, session)
       THEN /\ session' = logout_user(session)
            /\ resp' = redirect("/", <<"You've been logged out!">>)
       ELSE /\ session' = session
            /\ resp' = unauthorized
    /\ UNCHANGED <<users, tacos, threads>>

\* the Taco table is capped at MaxTacos: a request that would insert past the
\* cap is not taken; every other request to /taco is
taco(method, protein, shell, cheese, extras) ==
    /\ \/ Len(tacos) < MaxTacos
       \/ ~(login_required(users, session) /\ CreateTacoFormValid(method, extras))
    /\ req' = Request(method, "/taco",
                      [NoForm EXCEPT !.cheese = cheese, !.extras = extras])
    /\ IF login_required(users, session)
       THEN IF CreateTacoFormValid(method, extras)
            THEN /\ tacos' = TacoInsert(tacos, current_object(users, session),
                                        protein, shell, cheese, Strip(extras))
                 /\ resp' = redirect("/", <<"Taco has been created!">>)
            ELSE /\ tacos' = tacos
                 /\ resp' = render_template("taco.html", <<>>)
       ELSE /\ tacos' = tacos
            /\ resp' = unauthorized
    /\ UNCHANGED <<users, session, threads>>

\* User.create_user called directly, as the start-up seeding and the tests do
create_user_call(email, password, salt) ==
    /\ req' = Request("CALL", "User.create_user",
                      [NoForm EXCEPT !.email = email, !.password = password])
    /\ LET r == create_user(users, email, password, salt)
       IN  /\ users' = r.users
           /\ resp' = Response(0, "", "", <<>>, r.raised)
    /\ UNCHANGED <<tacos, session, threads>>

-----------------------------------------------------------------------------
(* Spec: one client, requests answered one at a time *)

NoThreads == [t \in Threads |-> [pc |-> "idle", email |-> "", password |-> <<>>,
                                 pw_hash |-> <<>>, raised |-> ""]]

\* models.initialize(): both tables exist and are empty; nobody is logged in
Init ==
    /\ users = <<>>
    /\ tacos = <<>>
    /\ session = 0
    /\ req = [method |-> "", route |-> "", user_id |-> 0, form |-> NoForm]
    /\ resp = Response(0, "", "", <<>>, "")
    /\ threads = NoThreads

Next ==
    \/ index
    \/ \E m \in Methods, e \in Emails, p \in Passwords, p2 \in Passwords, s \in Salts :
          register(m, e, p, p2, s)
    \/ \E m \in Methods, e \in Emails, p \in Passwords \cup {<<>>} :
          login(m, e, p)
    \/ logout
    \/ \E m \in Methods, pr \in Proteins, sh \in Shells, c \in Cheeses,
          x \in ExtrasInputs \cup {<<>>} :
          taco(m, pr, sh, c, x)
    \/ \E e \in Emails, p \in Passwords, s \in Salts : create_user_call(e, p, s)

Spec == Init /\ [][Next]_vars

-----------------------------------------------------------------------------
(* SpecConc: two threads inside User.create_user at once.  The steps of one  *)
(* call: enter the transaction, hash the password, INSERT (SQLite admits one *)
(* writer at a time and checks the unique index inside the INSERT), then     *)
(* COMMIT, or leave through the except clause.                               *)

\* SQLite's write lock: held from a successful INSERT to the COMMIT
WriteLocked(t) == \E u \in Threads \ {t} : threads[u].pc = "commit"

conc_call(t, email, password) ==
    /\ threads[t].pc = "idle"
    /\ threads' = [threads EXCEPT ![t].pc = "hash", ![t].email = email,
                                  ![t].password = password]
    /\ UNCHANGED <<users, tacos, session, req, resp>>

conc_hash(t, salt) ==
    /\ threads[t].pc = "hash"
    /\ threads' = [threads EXCEPT ![t].pc = "insert",
                      ![t].pw_hash = PasswordToStore(threads[t].password, salt)]
    /\ UNCHANGED <<users, tacos, session, req, resp>>

conc_insert(t) ==
    /\ threads[t].pc = "insert"
    /\ ~WriteLocked(t)
    /\ LET r == UserInsert(users, threads[t].email, threads[t].pw_hash)
       IN  /\ users' = r.users
           /\ threads' = [threads EXCEPT
                  ![t].pc = IF r.error = "" THEN "commit" ELSE "except"]
    /\ UNCHANGED <<tacos, session, req, resp>>

conc_commit(t) ==
    /\ threads[t].pc = "commit"
    /\ threads' = [threads EXCEPT ![t].pc = "done"]
    /\ UNCHANGED <<users, tacos, session, req, resp>>

conc_except(t) ==
    /\ threads[t].pc = "except"
    /\ threads' = [threads EXCEPT ![t].pc = "done", ![t].raised = "ValueError"]
    /\ UNCHANGED <<users, tacos, session, req, resp>>

InitConc == Init

NextConc ==
    \/ \E t \in Threads, e \in Emails, p \in Passwords : conc_call(t, e, p)
    \/ \E t \in Threads, s \in Salts : conc_hash(t, s)
    \/ \E t \in Threads : conc_insert(t)
    \/ \E t \in Threads : conc_commit(t)
    \/ \E t \in Threads : conc_except(t)

SpecConc == InitConc /\ [][NextConc]_vars

-----------------------------------------------------------------------------
(* SpecFeed: GET / over Taco tables of every size up to MaxFeedTacos *)

\* a table of n tacos posted by user 1, every stride-th one with extras "g"
FeedStore(n, stride) ==
    [i \in 1..n |-> [id |-> i, user |-> 1, protein |-> "chicken",
                     shell |-> "flour", cheese |-> FALSE,
                     extras |-> IF i % stride = 0 THEN <<"g">> ELSE <<>>]]

InitFeed ==
    /\ \E e \in Emails, p \in Passwords, s \in Salts :
          users = create_user(<<>>, e, p, s).users
    /\ \E n \in 0..MaxFeedTacos, stride \in FeedStrides : tacos = FeedStore(n, stride)
    /\ session \in {0, 1}
    /\ req = [method |-> "", route |-> "", user_id |-> 0, form |-> NoForm]
    /\ resp = Response(0, "", "", <<>>, "")
    /\ threads = NoThreads

NextFeed == index

SpecFeed == InitFeed /\ [][NextFeed]_vars

-----------------------------------------------------------------------------
(* Properties *)

GenericFailure == <<"Your email or password doesn't match!">>

\* the stored hash was produced from this plaintext, under some salt
ProducedFrom(pw_hash, password) ==
    \E s \in Salts : pw_hash = generate_password_hash(password, s)

UniqueEmails ==
    \A i, j \in 1..Len(users) : users[i].email = users[j].email => i = j

\* C1: create_user adds exactly one user (with that email) when the email is
\* new, and otherwise raises ValueError and leaves the table as it was; no two
\* users ever share an email.
C1_CreateUserStep ==
    req'.route = "User.create_user" =>
        IF find_by_email(users, req'.form.email) = {}
        THEN /\ resp'.exc = ""
             /\ Len(users') = Len(users) + 1
             /\ SubSeq(users', 1, Len(users)) = users
             /\ users'[Len(users')].email = req'.form.email
        ELSE /\ resp'.exc = "ValueError"
             /\ users' = users
C1_CreateUser == []UniqueEmails /\ [][C1_CreateUserStep]_vars

\* C1 witness: a second create_user with the one stored email has raised
C1_Witness ==
    /\ req.route = "User.create_user"
    /\ resp.exc = "ValueError"
    /\ Len(users) = 1
    /\ users[1].email = req.form.email

\* C2: a submitted login succeeds (session is that user, 302 to /) iff a user
\* with that email exists and its stored hash was produced from the password;
\* otherwise the session is left alone and the one generic message is flashed
\* with status 200.
C2_Login ==
    (req.route = "/login" /\ LoginFormValid(req.method, req.form.email, req.form.password)) =>
        LET match == {i \in 1..Len(users) :
                        /\ users[i].email = req.form.email
                        /\ ProducedFrom(users[i].password, req.form.password)}
        IN  IF match /= {}
            THEN /\ \E i \in match : session = users[i].id
                 /\ resp.status = 302
                 /\ resp.location = "/"
            ELSE /\ session = req.user_id
                 /\ resp.status = 200
                 /\ resp.flashed = GenericFailure

\* C2 witness: with two users stored, an Anonymous caller has logged in
C2_Witness ==
    /\ req.route = "/login"
    /\ resp.status = 302
    /\ session /= 0
    /\ req.user_id = 0
    /\ Len(users) = 2

\* C3: an Anonymous request to /taco or /logout is redirected to the login
\* view and changes neither table nor the session; the Taco table changes only
\* in a /taco request made with an authenticated session.
C3_AnonymousStep ==
    /\ (req'.route \in {"/taco", "/logout"} /\ session = 0) =>
          /\ resp'.status = 302
          /\ resp'.location = "/login"
          /\ tacos' = tacos
          /\ users' = users
          /\ session' = session
    /\ tacos' /= tacos =>
          /\ req'.route = "/taco"
          /\ session /= 0
          /\ load_user(users, session) /= 0
C3_AnonymousRefused == [][C3_AnonymousStep]_vars

\* C3 witness: an Anonymous POST to /taco was redirected to /login
C3_Witness ==
    /\ req.route = "/taco"
    /\ req.method = "POST"
    /\ req.form.extras /= <<>>
    /\ req.user_id = 0
    /\ resp.location = "/login"

\* C4: a valid POST to /register whose email is already registered is answered
\* 200 with the form and a flash message, raises nothing, and adds no user.
C4_DuplicateStep ==
    (/\ req'.route = "/register"
     /\ RegisterFormValid(req'.method, req'.form.email, req'.form.password,
                          req'.form.password2)
     /\ find_by_email(users, req'.form.email) /= {}) =>
        /\ resp'.status = 200
        /\ resp'.template = "register.html"
        /\ resp'.flashed /= <<>>
        /\ resp'.exc = ""
        /\ users' = users
C4_DuplicateRegisterHandled == [][C4_DuplicateStep]_vars

\* C5: when the concurrent create_user calls have all returned, calls that
\* used the same email have exactly one success among them, the others raised
\* ValueError, and the table holds exactly one row for that email.
C5_ConcurrentCreate ==
    /\ UniqueEmails
    /\ (\A t \in Threads : threads[t].pc = "done") =>
          \A e \in Emails :
             LET callers == {t \in Threads : threads[t].email = e}
             IN  callers /= {} =>
                   /\ Cardinality({t \in callers : threads[t].raised = ""}) = 1
                   /\ \A t \in callers : threads[t].raised \in {"", "ValueError"}
                   /\ Cardinality(find_by_email(users, e)) = 1

\* C5 witness: both threads called with the same email and have returned
C5_Witness ==
    /\ \A t \in Threads : threads[t].pc = "done"
    /\ \A t, u \in Threads : threads[t].email = threads[u].email
    /\ \E t \in Threads : threads[t].raised = "ValueError"

\* C6: every taco's owner is an existing user; a taco is created with the
\* requesting session's user as owner; stored tacos never change; the feed
\* shows each taco with the owner it is stored with.
C6_OwnersResolve ==
    /\ \A i \in 1..Len(tacos) : load_user(users, tacos[i].user) /= 0
    /\ resp.template = "index.html" =>
          \A j \in 1..Len(resp.feed) : resp.feed[j].user = tacos[j].user
C6_OwnerStep ==
    /\ Len(tacos') >= Len(tacos)
    /\ \A i \in 1..Len(tacos) : tacos'[i] = tacos[i]
    /\ Len(tacos') > Len(tacos) =>
          /\ Len(tacos') = Len(tacos) + 1
          /\ tacos'[Len(tacos')].user = session
C6_TacoOwner == []C6_OwnersResolve /\ [][C6_OwnerStep]_vars

\* C6 witness: the feed shows tacos of two different owners
C6_Witness ==
    /\ resp.template = "index.html"
    /\ Len(resp.feed) = 2
    /\ resp.feed[1].user /= resp.feed[2].user

\* C7: after a successful create_user (called directly or by /register) the
\* row found by that email holds a password that is a hash of the plaintext
\* and is not the plaintext; every stored password is a hash.
C7_PasswordHashed ==
    /\ \A i \in 1..Len(users) : \E p \in Passwords : ProducedFrom(users[i].password, p)
    /\ (\/ req.route = "User.create_user" /\ resp.exc = ""
        \/ req.route = "/register" /\ resp.status = 302) =>
          \A i \in find_by_email(users, req.form.email) :
             /\ users[i].password /= req.form.password
             /\ ProducedFrom(users[i].password, req.form.password)

\* C7 witness: create_user has just stored a user
C7_Witness ==
    /\ req.route = "User.create_user"
    /\ resp.exc = ""
    /\ find_by_email(users, req.form.email) /= {}

\* C8: GET / shows the "no tacos yet" placeholder exactly when the Taco table
\* is empty; with tacos stored it is absent and the extras of each taco the
\* feed holds (the first FeedLimit) is in the page.
C8_EmptyIndicator ==
    resp.template = "index.html" =>
        /\ resp.status = 200
        /\ resp.no_tacos <=> (tacos = <<>>)
        /\ \A i \in 1..Min(Len(tacos), FeedLimit) :
              \E j \in 1..Len(resp.feed) : resp.feed[j].extras = tacos[i].extras

\* C8 witness: the page lists a posted taco and its stripped extras
C8_Witness ==
    /\ resp.template = "index.html"
    /\ ~resp.no_tacos
    /\ Len(tacos) = 1
    /\ resp.feed[1].extras = <<"g">>

\* C9: /logout leaves the session Anonymous and answers 302: to / when a
\* session was ended, and as a no-op (tables and session unchanged, redirect
\* to login) when the caller was already Anonymous.
C9_LogoutStep ==
    req'.route = "/logout" =>
        /\ session' = 0
        /\ resp'.status = 302
        /\ users' = users
        /\ tacos' = tacos
        /\ session /= 0 => resp'.location = "/"
        /\ session = 0 => session' = session
C9_Logout == [][C9_LogoutStep]_vars

\* C9 witness: /logout answered for a caller that was already Anonymous
C9_Witness ==
    /\ req.route = "/logout"
    /\ req.user_id = 0
    /\ session = 0
    /\ resp.status = 302
    /\ users /= <<>>

\* C10: the feed of GET / is the first min(n, FeedLimit) stored tacos, in
\* insertion order; with no taco stored it is empty and the page is served.
C10_FeedOrder ==
    resp.template = "index.html" =>
        /\ resp.status = 200
        /\ Len(resp.feed) = Min(Len(tacos), FeedLimit)
        /\ \A i \in 1..Len(resp.feed) : resp.feed[i] = tacos[i]
        /\ \A i \in 1..Len(resp.feed) : resp.feed[i].id = i

\* C10 witness: more tacos stored than the limit, and the feed cut at the limit
C10_Witness ==
    /\ resp.template = "index.html"
    /\ Len(tacos) > FeedLimit
    /\ Len(resp.feed) = FeedLimit

====
